---- MODULE Spec2Model ----
(***************************************************************************)
(* pylibcudf Table (python/cudf/cudf/_lib/pylibcudf/table.pyx) and the     *)
(* strings utilities declared with it (create_chars_child_column,          *)
(* get_offset64_threshold, get_offset_value).                              *)
(*                                                                         *)
(* Spec        : the host-side object graph of Tables, the Python lists    *)
(*               they alias, Columns and device buffers, driven by one     *)
(*               caller.                                                   *)
(* SpecInterop : two host threads running to_arrow / from_arrow on Tables  *)
(*               whose lists no caller holds, under the interpreter lock.  *)
(* SpecStrings : the strings utilities applied to inputs from small sets.  *)
(***************************************************************************)
EXTENDS Integers, Sequences, FiniteSets, TLC

\* ------------------------------------------------------------------ bounds
MaxCols == 2     \* longest Python list the caller builds
MaxLists == 2    \* list objects ever allocated
MaxTables == 2   \* Table objects ever allocated
MaxPending == 2  \* device operations enqueued on the stream and not yet run

VARIABLES
  lists,    \* heap of Python list objects: list id -> sequence of objects
  tables,   \* heap of Table objects: table id -> [cols |-> list id] (self._columns)
  roots,    \* references the caller holds: [tables, lists, cols]
  bufs,     \* device buffers: buffer -> [live, bytes]
  res,      \* what the last operation was given and what it returned
  crashed,  \* TRUE once the process has died on a wild pointer
  pc,       \* per host thread: where it is inside to_arrow / from_arrow
  gil,      \* the thread holding the interpreter lock, 0 when nobody does
  loc,      \* per host thread: the locals of the call it is in, and its last result
  env,      \* the value of LIBCUDF_LARGE_STRINGS_THRESHOLD in the environment
  cache,    \* the threshold an implementation that reads once has kept
  stream,   \* device work enqueued on the stream and not yet completed
  sres      \* the last strings-utility call and what it returned

hvars == <<lists, tables, roots, bufs, res, crashed>>
ivars == <<pc, gil, loc>>
svars == <<env, cache, stream, sres>>
vars == <<hvars, ivars, svars>>

\* ------------------------------------------------------- objects and buffers
\* A Python object that is no pylibcudf Column.
NotAColumn == [kind |-> "str"]

\* The two Columns the caller starts with; each owns its device buffer.
OwnedColumn(b, t, n) ==
  [kind |-> "column", data |-> b, off |-> 0, size |-> n, dtype |-> t,
   owning |-> TRUE, owner |-> <<>>]
ColA == OwnedColumn(1, "INT32", 2)
ColB == OwnedColumn(2, "STRING", 3)

\* Device buffers are numbered from 1; bytes stands for the elements stored.
InitBufs == <<[live |-> TRUE, bytes |-> <<7, 8>>], [live |-> TRUE, bytes |-> <<1, 2, 3>>]>>
Freed == [live |-> FALSE, bytes |-> <<>>]

isinstance_Column(o) == o.kind = "column"

AllColumns(s) == \A i \in DOMAIN s : isinstance_Column(s[i])

\* Column.view(): the non-owning column_view of a Column.
Column_view(c) == [data |-> c.data, off |-> c.off, size |-> c.size, dtype |-> c.dtype]

\* Column.from_column_view(cv, owner): a non-owning Column over the memory cv
\* points at, holding a strong reference to owner.
Column_from_column_view(cv, owner) ==
  [kind |-> "column", data |-> cv.data, off |-> cv.off, size |-> cv.size,
   dtype |-> cv.dtype, owning |-> FALSE, owner |-> <<owner>>]

\* What an unchecked <Column> cast of a non-Column reads as a column_view
\* (data 0: no buffer of the program).
GarbageViews == {[data |-> 0, off |-> 0, size |-> n, dtype |-> "INT32"] : n \in {0, 9}}

\* ------------------------------------------------------- reference counting
\* The buffers an object keeps alive: its own, or its owner's.
RECURSIVE Keeps(_)
Keeps(o) ==
  IF ~isinstance_Column(o) THEN {}
  ELSE IF o.owning THEN {o.data}
  ELSE IF o.owner = <<>> THEN {}
  ELSE Keeps(o.owner[1])

Elems(s) == {s[i] : i \in DOMAIN s}

LiveLists(ts, r) == r.lists \cup {ts[t].cols : t \in r.tables}

LiveObjects(ls, ts, r) == r.cols \cup UNION {Elems(ls[l]) : l \in LiveLists(ts, r)}

LiveBufs(ls, ts, r) == UNION {Keeps(o) : o \in LiveObjects(ls, ts, r)}

\* Deallocation when the last reference goes: a buffer no live Column keeps is
\* freed, and stays freed.
Dealloc(bs, ls, ts, r) ==
  [b \in DOMAIN bs |-> IF b \in LiveBufs(ls, ts, r) THEN bs[b] ELSE Freed]

\* The heaps once the objects nothing refers to are gone: a dead Table keeps no
\* list (cols = 0), a dead list keeps no element.
SweepTables(ts, r) ==
  [t \in DOMAIN ts |-> IF t \in r.tables THEN ts[t] ELSE [cols |-> 0]]

SweepLists(ls, ts, r) ==
  [l \in DOMAIN ls |-> IF l \in LiveLists(ts, r) THEN ls[l] ELSE <<>>]

\* ------------------------------------------------------------------- Table
ValueError == "ValueError"

\* Table.__init__(self, list columns): cols is the content of the list l.
Table_init_any(cols, l) ==
  IF cols = <<>> \/ \E i \in DOMAIN cols : isinstance_Column(cols[i])
  THEN [ok |-> TRUE, err |-> "none", tbl |-> <<[cols |-> l]>>]
  ELSE [ok |-> FALSE, err |-> ValueError, tbl |-> <<>>]

Table_init(cols, l) ==
  IF \A i \in DOMAIN cols : isinstance_Column(cols[i])
  THEN [ok |-> TRUE, err |-> "none", tbl |-> <<[cols |-> l]>>]
  ELSE [ok |-> FALSE, err |-> ValueError, tbl |-> <<>>]

\* Table.columns(self): the list object itself, not a copy.
columns(ts, t) == ts[t].cols

\* Table.view(self): one column_view per element of the list, in order. g is what
\* the unchecked cast (<Column> col) reads for an element that is no Column.
view_skip_last(cols, g) ==
  [i \in 1..(Len(cols) - 1) |->
     IF isinstance_Column(cols[i]) THEN Column_view(cols[i]) ELSE g]

view(cols, g) ==
  [i \in 1..Len(cols) |->
     IF isinstance_Column(cols[i]) THEN Column_view(cols[i]) ELSE g]

\* Every outcome of Table.view(): (<Column> col).view() on an element that is no
\* Column goes through a wild vtable pointer, so the call either kills the
\* process or pushes whatever it read.
ViewOutcomes(cols) ==
  IF AllColumns(cols)
  THEN {[crash |-> FALSE, tv |-> view(cols, CHOOSE g \in GarbageViews : TRUE)]}
  ELSE {[crash |-> TRUE, tv |-> <<>>]} \cup
       {[crash |-> FALSE, tv |-> view(cols, g)] : g \in GarbageViews}

\* table_view of the rows k.. of every column (a slice taken by a libcudf
\* algorithm); k = 0 is the view itself.
SliceView(tv, k) ==
  [i \in 1..Len(tv) |->
     [tv[i] EXCEPT !.off = @ + k, !.size = IF @ >= k THEN @ - k ELSE 0]]

\* Table.from_table_view(tv, owner): ownerCols is the content of owner.columns().
from_table_view_first_owner(tv, ownerCols) ==
  IF \A i \in DOMAIN tv : i <= Len(ownerCols) /\ isinstance_Column(ownerCols[i])
  THEN [ok |-> TRUE, err |-> "none",
        cols |-> [i \in 1..Len(tv) |-> Column_from_column_view(tv[i], ownerCols[1])]]
  ELSE [ok |-> FALSE,
        err |-> IF \E i \in DOMAIN tv : i > Len(ownerCols) THEN "IndexError" ELSE "TypeError",
        cols |-> <<>>]

from_table_view(tv, ownerCols) ==
  IF \A i \in DOMAIN tv : i <= Len(ownerCols) /\ isinstance_Column(ownerCols[i])
  THEN [ok |-> TRUE, err |-> "none",
        cols |-> [i \in 1..Len(tv) |-> Column_from_column_view(tv[i], ownerCols[i])]]
  ELSE [ok |-> FALSE,
        err |-> IF \E i \in DOMAIN tv : i > Len(ownerCols) THEN "IndexError" ELSE "TypeError",
        cols |-> <<>>]

\* ------------------------------------------------------------ the caller
NoRes == [op |-> "none", ok |-> TRUE, err |-> "none", tbl |-> 0, lst |-> 0,
          arg |-> <<>>, out |-> <<>>, before |-> 0]

\* Host threads that call into the Table.
Threads == {1, 2}

NoArrow == [names |-> <<>>, cols |-> <<>>]
NoRet == [op |-> "none", err |-> "none", self |-> 0, nmeta |-> 0, before |-> <<>>,
          arrow |-> NoArrow, tbl |-> 0]
NoLoc == [self |-> 0, before |-> <<>>, c_metadata |-> <<>>, tv |-> <<>>, ctable |-> NoArrow,
          c_err |-> "none", c_arrow |-> NoArrow, c_table |-> <<>>, ret |-> NoRet]

EnvUnset == [kind |-> "unset", n |-> 0]
NoSRes == [op |-> "none", err |-> "none", req |-> <<0, 0>>, out |-> <<0, 0>>,
           col |-> 0, first |-> FALSE]

NoThreads ==
  /\ pc = [t \in Threads |-> "idle"]
  /\ gil = 0
  /\ loc = [t \in Threads |-> NoLoc]

NoStrings ==
  /\ env = EnvUnset
  /\ cache = <<>>
  /\ stream = 0
  /\ sres = NoSRes

Init ==
  /\ lists = <<>>
  /\ tables = <<>>
  /\ roots = [tables |-> {}, lists |-> {}, cols |-> {ColA, ColB}]
  /\ bufs = InitBufs
  /\ res = NoRes
  /\ crashed = FALSE
  /\ NoThreads
  /\ NoStrings

\* Objects the caller can put into a list: a Column it holds, or anything else.
Holdable == roots.cols \cup {NotAColumn}

SeqsUpTo(S, n) == UNION {[1..k -> S] : k \in 0..n}

\* columns = [...]: the caller builds a list.
NewList(s) ==
  /\ ~crashed
  /\ Len(lists) < MaxLists
  /\ lists' = Append(lists, s)
  /\ roots' = [roots EXCEPT !.lists = @ \cup {Len(lists) + 1}]
  /\ res' = [NoRes EXCEPT !.op = "list"]
  /\ UNCHANGED <<tables, bufs, crashed>>
  /\ UNCHANGED <<ivars, svars>>

\* Table(columns) with a list l the caller holds.
Construct(l) ==
  /\ ~crashed
  /\ Len(tables) < MaxTables
  /\ LET r == Table_init(lists[l], l) IN
       /\ tables' = tables \o r.tbl
       /\ roots' = IF r.ok THEN [roots EXCEPT !.tables = @ \cup {Len(tables) + 1}]
                           ELSE roots
       /\ res' = [NoRes EXCEPT !.op = "construct", !.ok = r.ok, !.err = r.err,
                               !.lst = l, !.arg = lists[l], !.before = Len(tables),
                               !.tbl = IF r.ok THEN Len(tables) + 1 ELSE 0]
  /\ UNCHANGED <<lists, bufs, crashed>>
  /\ UNCHANGED <<ivars, svars>>

\* t.columns(): the caller now holds the Table's own list.
Columns(t) ==
  /\ ~crashed
  /\ roots' = [roots EXCEPT !.lists = @ \cup {columns(tables, t)}]
  /\ res' = [NoRes EXCEPT !.op = "columns", !.tbl = t, !.lst = columns(tables, t)]
  /\ UNCHANGED <<lists, tables, bufs, crashed>>
  /\ UNCHANGED <<ivars, svars>>

\* The caller changes a list it holds; a Column no longer referenced is freed.
Mutate(l, s, what) ==
  /\ ~crashed
  /\ lists' = [lists EXCEPT ![l] = s]
  /\ bufs' = Dealloc(bufs, lists', tables, roots)
  /\ res' = [NoRes EXCEPT !.op = what]
  /\ UNCHANGED <<tables, roots, crashed>>
  /\ UNCHANGED <<ivars, svars>>

ListAppend(l, o) ==
  /\ Len(lists[l]) < MaxCols
  /\ Mutate(l, Append(lists[l], o), "append")

ListPop(l) ==
  /\ lists[l] # <<>>
  /\ Mutate(l, SubSeq(lists[l], 1, Len(lists[l]) - 1), "pop")

ListSet(l, i, o) ==
  /\ lists[l][i] # o
  /\ Mutate(l, [lists[l] EXCEPT ![i] = o], "setitem")

\* del x: the caller lets go of a reference.
Drop(r) ==
  /\ ~crashed
  /\ roots' = r
  /\ bufs' = Dealloc(bufs, lists, tables, r)
  /\ tables' = SweepTables(tables, r)
  /\ lists' = SweepLists(lists, tables, r)
  /\ res' = [NoRes EXCEPT !.op = "del"]
  /\ UNCHANGED crashed
  /\ UNCHANGED <<ivars, svars>>

DropTable(t) == Drop([roots EXCEPT !.tables = @ \ {t}])
DropList(l) == Drop([roots EXCEPT !.lists = @ \ {l}])
DropColumn(c) == Drop([roots EXCEPT !.cols = @ \ {c}])

\* t.view(), as a pylibcudf function calls it.
View(t) ==
  /\ ~crashed
  /\ \E o \in ViewOutcomes(lists[columns(tables, t)]) :
       /\ crashed' = o.crash
       /\ res' = [NoRes EXCEPT !.op = "view", !.ok = ~o.crash, !.tbl = t,
                               !.arg = lists[columns(tables, t)], !.out = o.tv]
  /\ UNCHANGED <<lists, tables, roots, bufs>>
  /\ UNCHANGED <<ivars, svars>>

\* Table.from_table_view(sliced t.view(), t), as a pylibcudf function calls it:
\* the new Table gets a list of its own.
FromTableView(t, k) ==
  /\ ~crashed
  /\ Len(tables) < MaxTables
  /\ Len(lists) < MaxLists
  /\ \E o \in ViewOutcomes(lists[columns(tables, t)]) :
       IF o.crash
       THEN /\ crashed' = TRUE
            /\ res' = [NoRes EXCEPT !.op = "from_table_view", !.ok = FALSE, !.tbl = t]
            /\ UNCHANGED <<lists, tables, roots, bufs>>
       ELSE LET tv == SliceView(o.tv, k)
                r == from_table_view(tv, lists[columns(tables, t)])
                made == Table_init(r.cols, Len(lists) + 1)
            IN /\ lists' = IF r.ok THEN Append(lists, r.cols) ELSE lists
               /\ tables' = IF r.ok THEN tables \o made.tbl ELSE tables
               /\ roots' = IF r.ok /\ made.ok
                           THEN [roots EXCEPT !.tables = @ \cup {Len(tables) + 1}]
                           ELSE roots
               /\ res' = [NoRes EXCEPT !.op = "from_table_view", !.ok = r.ok /\ made.ok,
                                       !.err = r.err, !.tbl = t,
                                       !.arg = lists[columns(tables, t)], !.out = tv,
                                       !.before = Len(tables)]
               /\ UNCHANGED <<bufs, crashed>>
  /\ UNCHANGED <<ivars, svars>>

Next ==
  \/ \E s \in SeqsUpTo(Holdable, MaxCols) : NewList(s)
  \/ \E l \in roots.lists : Construct(l)
  \/ \E t \in roots.tables : Columns(t)
  \/ \E l \in roots.lists, o \in Holdable : ListAppend(l, o)
  \/ \E l \in roots.lists : ListPop(l)
  \/ \E l \in roots.lists : \E i \in DOMAIN lists[l], o \in Holdable : ListSet(l, i, o)
  \/ \E t \in roots.tables : DropTable(t)
  \/ \E l \in roots.lists : DropList(l)
  \/ \E c \in roots.cols : DropColumn(c)
  \/ \E t \in roots.tables : View(t)
  \/ \E t \in roots.tables, k \in {0, 1} : FromTableView(t, k)

Spec == Init /\ [][Next]_vars

\* ================================================================ SpecInterop
\* Two host threads convert Tables to and from Arrow under the interpreter lock.

\* ColumnMetadata descriptors: a name and the number of child descriptors.
Descriptors == {[kind |-> "ColumnMetadata", name |-> "a", children |-> 0],
                [kind |-> "ColumnMetadata", name |-> "s", children |-> 1]}

\* What a caller can put into the metadata list.
MetadataItems == Descriptors \cup {NotAColumn}

isinstance_ColumnMetadata(m) == m.kind = "ColumnMetadata"

\* ColumnMetadata.to_libcudf(): the column_metadata of a descriptor.
ColumnMetadata_to_libcudf(m) == [name |-> m.name, children_meta |-> m.children]

\* Child columns a descriptor must cover: one for a string column's characters.
NumChildren(dtype) == IF dtype = "STRING" THEN 1 ELSE 0

ArrowType(dtype) == IF dtype = "STRING" THEN "utf8" ELSE "int32"
CudfType(type) == IF type = "utf8" THEN "STRING" ELSE "INT32"

\* The elements a column_view covers, read from its device buffer.
ViewValues(cv, bs) ==
  [i \in 1..cv.size |-> bs[cv.data].bytes[cv.off + i]]

StructureMismatch == "StructureMismatch"

\* cudf::to_arrow(table_view, metadata): one Arrow column per column view, named
\* by its descriptor; refuses metadata that does not fit the columns.
cpp_to_arrow(tv, c_metadata, bs) ==
  IF \/ Len(c_metadata) # Len(tv)
     \/ \E i \in DOMAIN tv : c_metadata[i].children_meta # NumChildren(tv[i].dtype)
  THEN [err |-> StructureMismatch, arrow |-> NoArrow]
  ELSE [err |-> "none",
        arrow |-> [names |-> [i \in 1..Len(tv) |-> c_metadata[i].name],
                   cols |-> [i \in 1..Len(tv) |->
                               [type |-> ArrowType(tv[i].dtype),
                                values |-> ViewValues(tv[i], bs)]]]]

\* cudf::from_arrow(arrow table): an owned libcudf table, one column per Arrow
\* column, in order.
cpp_from_arrow(ctable) ==
  [i \in 1..Len(ctable.cols) |->
     [dtype |-> CudfType(ctable.cols[i].type), values |-> ctable.cols[i].values]]

\* Column.from_libcudf(unique_ptr[column]): an owning Column over a buffer b of
\* its own.
Column_from_libcudf(c, b) == OwnedColumn(b, c.dtype, Len(c.values))

\* Table.from_libcudf(libcudf_tbl): the Columns of the new Table, in the order
\* the libcudf table holds them; nb is the number of buffers there are.
from_libcudf_reversed(c_columns, nb) ==
  [i \in 1..Len(c_columns) |->
     Column_from_libcudf(c_columns[Len(c_columns) + 1 - i], nb + Len(c_columns) + 1 - i)]

from_libcudf(c_columns, nb) ==
  [i \in 1..Len(c_columns) |-> Column_from_libcudf(c_columns[i], nb + i)]

\* Table.to_arrow, lines 119-123: the metadata list turned into c_metadata.
to_arrow_c_metadata(metadata) ==
  [i \in 1..Len(metadata) |-> ColumnMetadata_to_libcudf(metadata[i])]

\* The interpreter hands the lock to a thread that is between calls, or takes
\* it back.
Resume(t) ==
  /\ ~crashed
  /\ pc[t] = "idle"
  /\ gil = 0
  /\ gil' = t
  /\ UNCHANGED <<pc, loc, hvars, svars>>

Yield(t) ==
  /\ ~crashed
  /\ pc[t] = "idle"
  /\ gil = t
  /\ gil' = 0
  /\ UNCHANGED <<pc, loc, hvars, svars>>

\* Table.to_arrow(self, metadata) up to "with nogil:": c_metadata is built under
\* the lock (an element that is no ColumnMetadata raises TypeError there), then
\* the lock is released.
to_arrow_begin_keeps_gil(t, self, metadata) ==
  /\ ~crashed
  /\ pc[t] = "idle"
  /\ gil = t
  /\ IF \A i \in DOMAIN metadata : isinstance_ColumnMetadata(metadata[i])
     THEN /\ pc' = [pc EXCEPT ![t] = "ta_nogil"]
          /\ loc' = [loc EXCEPT ![t] =
                       [NoLoc EXCEPT !.self = self,
                                     !.before = lists[columns(tables, self)],
                                     !.c_metadata = to_arrow_c_metadata(metadata)]]
     ELSE /\ loc' = [loc EXCEPT ![t] =
                       [NoLoc EXCEPT !.ret = [NoRet EXCEPT !.op = "to_arrow",
                                                           !.err = "TypeError",
                                                           !.self = self,
                                                           !.nmeta = Len(metadata)]]]
          /\ UNCHANGED pc
  /\ UNCHANGED <<gil, hvars, svars>>

to_arrow_begin(t, self, metadata) ==
  /\ ~crashed
  /\ pc[t] = "idle"
  /\ gil = t
  /\ IF \A i \in DOMAIN metadata : isinstance_ColumnMetadata(metadata[i])
     THEN /\ gil' = 0
          /\ pc' = [pc EXCEPT ![t] = "ta_nogil"]
          /\ loc' = [loc EXCEPT ![t] =
                       [NoLoc EXCEPT !.self = self,
                                     !.before = lists[columns(tables, self)],
                                     !.c_metadata = to_arrow_c_metadata(metadata)]]
     ELSE /\ loc' = [loc EXCEPT ![t] =
                       [NoLoc EXCEPT !.ret = [NoRet EXCEPT !.op = "to_arrow",
                                                           !.err = "TypeError",
                                                           !.self = self,
                                                           !.nmeta = Len(metadata)]]]
          /\ UNCHANGED <<pc, gil>>
  /\ UNCHANGED <<hvars, svars>>

\* self.view(), "with gil:": the lock is taken again for the walk.
view_with_gil(t) ==
  /\ ~crashed
  /\ pc[t] = "ta_nogil"
  /\ gil = 0
  /\ gil' = t
  /\ pc' = [pc EXCEPT ![t] = "ta_walk"]
  /\ UNCHANGED <<loc, hvars, svars>>

\* self.view(): the walk over self._columns, and the end of "with gil:".
view_walk(t) ==
  /\ ~crashed
  /\ pc[t] = "ta_walk"
  /\ gil = t
  /\ \E o \in ViewOutcomes(lists[columns(tables, loc[t].self)]) :
       /\ crashed' = o.crash
       /\ loc' = [loc EXCEPT ![t].tv = o.tv]
       /\ gil' = IF o.crash THEN gil ELSE 0
       /\ pc' = IF o.crash THEN pc ELSE [pc EXCEPT ![t] = "ta_cpp"]
  /\ UNCHANGED <<lists, tables, roots, bufs, res, svars>>

\* c_result = move(cpp_to_arrow(self.view(), c_metadata)), without the lock.
to_arrow_call(t) ==
  /\ ~crashed
  /\ pc[t] = "ta_cpp"
  /\ LET r == cpp_to_arrow(loc[t].tv, loc[t].c_metadata, bufs) IN
       loc' = [loc EXCEPT ![t].c_err = r.err, ![t].c_arrow = r.arrow]
  /\ pc' = [pc EXCEPT ![t] = "ta_reacq"]
  /\ UNCHANGED <<gil, hvars, svars>>

\* The end of "with nogil:": the thread waits for the lock and takes it.
to_arrow_end_nogil(t) ==
  /\ ~crashed
  /\ pc[t] = "ta_reacq"
  /\ gil = 0
  /\ gil' = t
  /\ pc' = [pc EXCEPT ![t] = "ta_wrap"]
  /\ UNCHANGED <<loc, hvars, svars>>

\* return pa.pyarrow_wrap_table(c_result), or the C++ exception raised.
to_arrow_return(t) ==
  /\ ~crashed
  /\ pc[t] = "ta_wrap"
  /\ gil = t
  /\ pc' = [pc EXCEPT ![t] = "idle"]
  /\ loc' = [loc EXCEPT ![t] =
               [NoLoc EXCEPT !.ret = [NoRet EXCEPT !.op = "to_arrow",
                                                   !.err = loc[t].c_err,
                                                   !.self = loc[t].self,
                                                   !.before = loc[t].before,
                                                   !.nmeta = Len(loc[t].c_metadata),
                                                   !.arrow = loc[t].c_arrow]]]
  /\ UNCHANGED <<gil, hvars, svars>>

\* Table.from_arrow(pyarrow_table) up to "with nogil:", given the Arrow table
\* the thread got from its last to_arrow.
from_arrow_begin(t) ==
  /\ ~crashed
  /\ pc[t] = "idle"
  /\ gil = t
  /\ loc[t].ret.op = "to_arrow"
  /\ loc[t].ret.err = "none"
  /\ Len(tables) + Cardinality({u \in Threads : pc[u] \in {"fa_cpp", "fa_reacq", "fa_wrap"}})
       < MaxTables
  /\ gil' = 0
  /\ pc' = [pc EXCEPT ![t] = "fa_cpp"]
  /\ loc' = [loc EXCEPT ![t].ctable = loc[t].ret.arrow]
  /\ UNCHANGED <<hvars, svars>>

\* c_result = move(cpp_from_arrow(ctable.get()[0])), without the lock.
from_arrow_call(t) ==
  /\ ~crashed
  /\ pc[t] = "fa_cpp"
  /\ loc' = [loc EXCEPT ![t].c_table = cpp_from_arrow(loc[t].ctable)]
  /\ pc' = [pc EXCEPT ![t] = "fa_reacq"]
  /\ UNCHANGED <<gil, hvars, svars>>

from_arrow_end_nogil(t) ==
  /\ ~crashed
  /\ pc[t] = "fa_reacq"
  /\ gil = 0
  /\ gil' = t
  /\ pc' = [pc EXCEPT ![t] = "fa_wrap"]
  /\ UNCHANGED <<loc, hvars, svars>>

\* return Table.from_libcudf(move(c_result)): the new Columns, their buffers,
\* the list holding them and the Table.
from_arrow_return(t) ==
  /\ ~crashed
  /\ pc[t] = "fa_wrap"
  /\ gil = t
  /\ LET c_columns == loc[t].c_table
         newcols == from_libcudf(c_columns, Len(bufs))
         made == Table_init(newcols, Len(lists) + 1)
     IN /\ bufs' = bufs \o [i \in 1..Len(c_columns) |->
                              [live |-> TRUE, bytes |-> c_columns[i].values]]
        /\ lists' = Append(lists, newcols)
        /\ tables' = tables \o made.tbl
        /\ roots' = [roots EXCEPT !.tables = @ \cup {Len(tables) + 1}]
        /\ loc' = [loc EXCEPT ![t] =
                     [NoLoc EXCEPT !.ret = [NoRet EXCEPT !.op = "from_arrow",
                                                         !.err = made.err,
                                                         !.self = loc[t].ret.self,
                                                         !.tbl = Len(tables) + 1]]]
  /\ pc' = [pc EXCEPT ![t] = "idle"]
  /\ UNCHANGED <<gil, res, crashed, svars>>

\* One Table of two Columns exists; no thread holds the lock.
InitInterop ==
  /\ lists = <<<<ColA, ColB>>>>
  /\ tables = <<[cols |-> 1]>>
  /\ roots = [tables |-> {1}, lists |-> {}, cols |-> {}]
  /\ bufs = InitBufs
  /\ res = NoRes
  /\ crashed = FALSE
  /\ NoThreads
  /\ NoStrings

NextInterop ==
  \/ \E t \in Threads : Resume(t)
  \/ \E t \in Threads : Yield(t)
  \/ \E t \in Threads, self \in roots.tables, metadata \in SeqsUpTo(MetadataItems, MaxCols + 1) :
       to_arrow_begin(t, self, metadata)
  \/ \E t \in Threads : view_with_gil(t)
  \/ \E t \in Threads : view_walk(t)
  \/ \E t \in Threads : to_arrow_call(t)
  \/ \E t \in Threads : to_arrow_end_nogil(t)
  \/ \E t \in Threads : to_arrow_return(t)
  \/ \E t \in Threads : from_arrow_begin(t)
  \/ \E t \in Threads : from_arrow_call(t)
  \/ \E t \in Threads : from_arrow_end_nogil(t)
  \/ \E t \in Threads : from_arrow_return(t)

SpecInterop == InitInterop /\ [][NextInterop]_vars

\* ================================================================ SpecStrings
\* The strings utilities: get_offset64_threshold, get_offset_value and
\* create_chars_child_column, called with inputs drawn from small sets.

\* std::numeric_limits<int32_t>::max()
Int32Max == 2147483647

\* A 64-bit integer v is the pair <<hi, lo>> with v = hi * 2^31 + lo and
\* 0 <= lo < 2^31; a 32-bit integer is a plain integer.
Widen32(x) == IF x >= 0 THEN <<0, x>> ELSE <<-1, x + Int32Max + 1>>

Less64(a, b) == a[1] < b[1] \/ (a[1] = b[1] /\ a[2] < b[2])

\* An int64 argument passed for a size_type (int32_t) parameter keeps its low
\* 32 bits.
size_type_cast_short(v) ==
  IF v[2] % 65536 >= 32768 THEN (v[2] % 65536) - 65536 ELSE v[2] % 65536

size_type_cast(v) == IF v[1] % 2 = 0 THEN v[2] ELSE v[2] - Int32Max - 1

\* LIBCUDF_LARGE_STRINGS_THRESHOLD: unset, not a number, or a positive number
\* of bytes below the default.
EnvValues ==
  {EnvUnset, [kind |-> "invalid", n |-> 0]} \cup
  {[kind |-> "int", n |-> n] : n \in {1000, 70000, Int32Max - 1}}

\* get_offset64_threshold() reading the environment.
get_offset64_threshold_default(e) == <<0, Int32Max>>

get_offset64_threshold(e) ==
  IF e.kind = "int" THEN Widen32(e.n) ELSE <<0, Int32Max>>

\* Offsets columns: 64-bit ones hold pairs, 32-bit ones plain integers.
OffsetColumns ==
  << [dtype |-> "INT64", data |-> <<<<0, 0>>, <<0, 3>>, <<0, 3>>, <<0, 10>>>>],
     [dtype |-> "INT64", data |-> <<<<0, 0>>, <<0, Int32Max>>, <<1, 0>>, <<1, 5>>>>],
     [dtype |-> "INT32", data |-> <<0, 2, 2, Int32Max>>],
     [dtype |-> "FLOAT64", data |-> <<0, 0, 0, 0>>] >>

\* The int64_t that get_offset_value returns for an element of the column.
get_offset_value_return(elem, dtype) ==
  IF dtype = "INT32" THEN Widen32(elem) ELSE elem

\* get_offset_value(offsets, index, stream): the element at index, read back
\* from the device.
get_offset_value_clamped(offsets, index) ==
  IF offsets.dtype \notin {"INT32", "INT64"}
  THEN [err |-> "invalid_argument", out |-> <<0, 0>>]
  ELSE [err |-> "none",
        out |-> IF Less64(<<0, Int32Max>>,
                          get_offset_value_return(offsets.data[index + 1], offsets.dtype))
                THEN <<0, Int32Max>>
                ELSE get_offset_value_return(offsets.data[index + 1], offsets.dtype)]

get_offset_value(offsets, index) ==
  IF offsets.dtype \notin {"INT32", "INT64"}
  THEN [err |-> "invalid_argument", out |-> <<0, 0>>]
  ELSE [err |-> "none",
        out |-> get_offset_value_return(offsets.data[index + 1], offsets.dtype)]

\* create_chars_child_column(bytes, stream, mr): a column of exactly bytes bytes.
create_chars_child_column(bytes) ==
  IF bytes >= 0
  THEN [err |-> "none", null |-> FALSE, size |-> bytes]
  ELSE [err |-> "logic_error", null |-> TRUE, size |-> 0]

\* Byte counts a caller asks for, as int64.
ByteCounts ==
  {<<0, 0>>, <<0, 1>>, <<0, 70000>>, <<0, Int32Max>>, <<1, 0>>, <<1, 5>>, <<2, 5>>, <<3, 7>>}

\* The environment variable is set or cleared.
SetEnv(e) ==
  /\ env # e
  /\ env' = e
  /\ sres' = [NoSRes EXCEPT !.op = "setenv"]
  /\ UNCHANGED <<cache, stream, hvars, ivars>>

\* get_offset64_threshold(): an implementation may read the environment on
\* every call (fresh) or keep what the first call read.
GetThreshold(fresh) ==
  /\ sres' = [NoSRes EXCEPT !.op = "threshold", !.first = (cache = <<>>),
                            !.out = IF fresh \/ cache = <<>>
                                    THEN get_offset64_threshold(env)
                                    ELSE cache[1]]
  /\ cache' = IF cache = <<>> THEN <<get_offset64_threshold(env)>> ELSE cache
  /\ UNCHANGED <<env, stream, hvars, ivars>>

\* get_offset_value(OffsetColumns[c], index, stream): the copy is enqueued and
\* the call waits for the stream before it returns the value.
GetOffsetValue(c, index) ==
  /\ LET r == get_offset_value(OffsetColumns[c], index) IN
       sres' = [NoSRes EXCEPT !.op = "offset", !.err = r.err, !.col = c,
                              !.req = <<0, index>>, !.out = r.out]
  /\ stream' = IF OffsetColumns[c].dtype \in {"INT32", "INT64"} THEN 0 ELSE stream
  /\ UNCHANGED <<env, cache, hvars, ivars>>

\* create_chars_child_column(byteCount, stream, mr) with an int64 byteCount: the
\* allocation is stream-ordered.
CreateChars(byteCount) ==
  /\ stream < MaxPending
  /\ LET r == create_chars_child_column(size_type_cast(byteCount)) IN
       /\ sres' = [NoSRes EXCEPT !.op = "allocate", !.err = r.err, !.req = byteCount,
                                 !.first = r.null,
                                 !.out = Widen32(r.size)]
       /\ stream' = IF r.err = "none" THEN stream + 1 ELSE stream
  /\ UNCHANGED <<env, cache, hvars, ivars>>

\* The device completes the oldest operation on the stream.
StreamAdvance ==
  /\ stream > 0
  /\ stream' = stream - 1
  /\ UNCHANGED <<env, cache, sres, hvars, ivars>>

InitStrings ==
  /\ lists = <<>>
  /\ tables = <<>>
  /\ roots = [tables |-> {}, lists |-> {}, cols |-> {}]
  /\ bufs = <<>>
  /\ res = NoRes
  /\ crashed = FALSE
  /\ NoThreads
  /\ env \in EnvValues
  /\ cache = <<>>
  /\ stream = 0
  /\ sres = NoSRes

NextStrings ==
  \/ \E e \in EnvValues : SetEnv(e)
  \/ \E fresh \in BOOLEAN : GetThreshold(fresh)
  \/ \E c \in DOMAIN OffsetColumns, index \in 0..3 : GetOffsetValue(c, index)
  \/ \E b \in ByteCounts : CreateChars(b)
  \/ StreamAdvance

SpecStrings == InitStrings /\ [][NextStrings]_vars

\* ===================================================== claims about Spec
TypeMismatch == ValueError

\* The column sequence a live Table t holds now.
ColumnsOf(t) == lists[columns(tables, t)]

\* C1: Table construction fails with TypeMismatch exactly when some element of
\* the given sequence is no Column, and then no Table is produced; when every
\* element is a Column (the empty sequence too) it succeeds and the new
\* Table's columns() are the given elements in the given order.
C1_ConstructChecksColumns ==
  res.op = "construct" =>
    IF AllColumns(res.arg)
    THEN /\ res.ok
         /\ res.err = "none"
         /\ Len(tables) = res.before + 1
         /\ Len(tables) \in roots.tables
         /\ ColumnsOf(Len(tables)) = res.arg
    ELSE /\ ~res.ok
         /\ res.err = TypeMismatch
         /\ Len(tables) = res.before

\* A construction from a list that mixes a Column and a non-Column was refused.
C1_Witness ==
  /\ res.op = "construct"
  /\ ~res.ok
  /\ \E i, j \in DOMAIN res.arg :
       isinstance_Column(res.arg[i]) /\ ~isinstance_Column(res.arg[j])

\* C2: every call of view() returns a view with as many column-views as the
\* Table's current column sequence has elements, in order, the i-th being the
\* view of the i-th column (same buffer, offset, row count and type).
C2_ViewMatchesColumns ==
  res.op = "view" =>
    /\ res.ok
    /\ Len(res.out) = Len(ColumnsOf(res.tbl))
    /\ \A i \in DOMAIN ColumnsOf(res.tbl) :
         /\ isinstance_Column(ColumnsOf(res.tbl)[i])
         /\ res.out[i] = Column_view(ColumnsOf(res.tbl)[i])
         /\ res.out[i].size = ColumnsOf(res.tbl)[i].size

\* The same for the elements that are Columns, when the call returns: this
\* much holds whatever was done to the list.
ViewMatchesColumnElements ==
  (res.op = "view" /\ res.ok) =>
    /\ Len(res.out) = Len(ColumnsOf(res.tbl))
    /\ \A i \in DOMAIN ColumnsOf(res.tbl) :
         isinstance_Column(ColumnsOf(res.tbl)[i]) =>
           /\ res.out[i] = Column_view(ColumnsOf(res.tbl)[i])
           /\ res.out[i].size = ColumnsOf(res.tbl)[i].size

\* C4: B = from_table_view(A.view(), A) has one non-owning Column per entry of
\* the view, the i-th referring to A's i-th Column and viewing the memory the
\* i-th entry points at; and the buffer behind every Column of a live Table is
\* never freed and holds what it held at the start, whichever references to A
\* were dropped.
C4_SharedOwnershipKeepsBuffers ==
  /\ (res.op = "from_table_view" /\ res.ok) =>
       /\ Len(tables) = res.before + 1
       /\ Len(ColumnsOf(Len(tables))) = Len(res.out)
       /\ \A i \in DOMAIN res.out :
            /\ ~ColumnsOf(Len(tables))[i].owning
            /\ ColumnsOf(Len(tables))[i].owner = <<res.arg[i]>>
            /\ Column_view(ColumnsOf(Len(tables))[i]) = res.out[i]
  /\ \A t \in roots.tables : \A i \in DOMAIN ColumnsOf(t) :
       isinstance_Column(ColumnsOf(t)[i]) =>
         /\ bufs[ColumnsOf(t)[i].data].live
         /\ bufs[ColumnsOf(t)[i].data] = InitBufs[ColumnsOf(t)[i].data]

\* Only B is left: the caller dropped A, A's list and both Columns, and B's two
\* non-owning Columns still view the two buffers.
C4_Witness ==
  /\ roots.cols = {}
  /\ roots.lists = {}
  /\ Cardinality(roots.tables) = 1
  /\ \E t \in roots.tables :
       /\ Len(ColumnsOf(t)) = 2
       /\ AllColumns(ColumnsOf(t))
       /\ \A i \in DOMAIN ColumnsOf(t) : ~ColumnsOf(t)[i].owning
       /\ {ColumnsOf(t)[i].data : i \in DOMAIN ColumnsOf(t)} = {1, 2}

\* C10: whatever the caller does to the list it passed to the constructor or
\* got from columns(), the column sequence of a constructed Table keeps its
\* elements, all of them Columns.
C10_ColumnSequenceIsStable ==
  [][\A t \in roots.tables \cap roots'.tables :
       /\ AllColumns(lists'[columns(tables', t)])
       /\ lists'[columns(tables', t)] = lists[columns(tables, t)]]_vars

\* ============================================== claims about SpecInterop
\* What a Table holds, column by column: type, row count and element values.
TableContent(t) ==
  [i \in 1..Len(ColumnsOf(t)) |->
     [dtype |-> ColumnsOf(t)[i].dtype,
      size |-> ColumnsOf(t)[i].size,
      values |-> ViewValues(Column_view(ColumnsOf(t)[i]), bufs)]]

\* C3: to_arrow with a metadata list (of descriptors) whose length differs from
\* the Table's column count fails with StructureMismatch, and the Table's
\* column sequence is what it was when the call began.
C3_MetadataCountMismatch ==
  \A t \in Threads :
    (/\ loc[t].ret.op = "to_arrow"
     /\ loc[t].ret.err # "TypeError"
     /\ loc[t].ret.nmeta # Len(loc[t].ret.before)) =>
      /\ loc[t].ret.err = StructureMismatch
      /\ loc[t].ret.arrow = NoArrow
      /\ ColumnsOf(loc[t].ret.self) = loc[t].ret.before

\* to_arrow on the two-column Table returned after being given one descriptor.
C3_Witness ==
  \E t \in Threads :
    /\ loc[t].ret.op = "to_arrow"
    /\ loc[t].ret.nmeta = 1
    /\ Len(loc[t].ret.before) = 2
    /\ loc[t].ret.err = StructureMismatch

C9_LockReleasedDuringConversion ==
  \A t \in Threads :
    /\ pc[t] \in {"ta_nogil", "ta_cpp", "ta_reacq", "fa_cpp", "fa_reacq"} => gil # t
    /\ pc[t] \in {"ta_walk", "ta_wrap", "fa_wrap"} => gil = t

\* While one thread is inside cpp_to_arrow, the other holds the lock and walks
\* the column list for its own conversion.
C9_Witness ==
  \E t, u \in Threads :
    /\ pc[t] = "ta_cpp"
    /\ pc[u] = "ta_walk"
    /\ gil = u

\* ============================================== claims about SpecStrings
\* C6: with the environment value unset or not a number the threshold is
\* 2^31 - 1; with it set to a smaller number N before the first call, the
\* first call returns N.
C6_ThresholdDefaultAndOverride ==
  (sres.op = "threshold" /\ sres.first) =>
    sres.out = IF env.kind = "int" THEN <<0, env.n>> ELSE <<0, Int32Max>>

\* The first call returned an override below the default.
C6_Witness ==
  /\ sres.op = "threshold"
  /\ sres.first
  /\ env.kind = "int"
  /\ sres.out = <<0, 70000>>
  /\ Less64(sres.out, <<0, Int32Max>>)

====
